---- MODULE Spec2Model ----
(***************************************************************************)
(* Model of nphysics' PinSlotJoint (src/src/joint/pin_slot_joint.rs), a    *)
(* composite joint owning one PrismaticJoint and one RevoluteJoint, and of *)
(* the 2D testbed's GraphicsManager                                        *)
(* (src/examples2d/nphysics_testbed2d/src/engine.rs).                      *)
(*                                                                         *)
(* Conventions.  Rust slices are 0-based, TLA+ sequences 1-based: the Rust *)
(* vels[0] is vels[1] here and the Rust vels[1] is vels[2].  Columns of    *)
(* the Jacobian buffer keep their 0-based Rust numbers.  The scalar type N *)
(* is modelled by the integers; angles are counted in quarter turns, so    *)
(* the angle 1 stands for pi/2 and every rotation about a coordinate axis  *)
(* is an integer matrix.                                                   *)
(***************************************************************************)
EXTENDS Integers, Sequences, FiniteSets, TLC

(***************************************************************************)
(* Bounds of the model.                                                    *)
(***************************************************************************)
MaxCoord == 3      \* the prismatic offset stays within 0..MaxCoord
MaxAngle == 1      \* the revolute angle stays within 0..MaxAngle (quarter turns)
MaxDt == 2         \* the timestep ranges over 1..MaxDt
Base == 1          \* first buffer column and dof id assigned to the joint's link
MaxRow == 1        \* value of the row counter on entry: 0..MaxRow
MaxUid == 4        \* world objects have uids 1..MaxUid

(***************************************************************************)
(* Spatial algebra: Vector3, rotations, Isometry3, Velocity.               *)
(***************************************************************************)
Zero3 == <<0, 0, 0>>
AxisX == <<1, 0, 0>>
AxisZ == <<0, 0, 1>>

VAdd(a, b) == <<a[1] + b[1], a[2] + b[2], a[3] + b[3]>>
VSub(a, b) == <<a[1] - b[1], a[2] - b[2], a[3] - b[3]>>
VScale(a, k) == <<a[1] * k, a[2] * k, a[3] * k>>
VNeg(a) == VScale(a, -1)
Dot(a, b) == a[1] * b[1] + a[2] * b[2] + a[3] * b[3]
Cross(a, b) ==
    <<a[2] * b[3] - a[3] * b[2], a[3] * b[1] - a[1] * b[3], a[1] * b[2] - a[2] * b[1]>>

\* cosine and sine of k quarter turns
Cos4(k) == CASE k % 4 = 0 -> 1 [] k % 4 = 2 -> -1 [] OTHER -> 0
Sin4(k) == CASE k % 4 = 1 -> 1 [] k % 4 = 3 -> -1 [] OTHER -> 0

\* Rodrigues' formula: v rotated by k quarter turns about the unit axis a
RotVec(a, k, v) ==
    VAdd(VAdd(VScale(v, Cos4(k)), VScale(Cross(a, v), Sin4(k))),
         VScale(a, Dot(a, v) * (1 - Cos4(k))))

\* a rotation is the triple of the images of the three basis vectors
IdRot == <<<<1, 0, 0>>, <<0, 1, 0>>, <<0, 0, 1>>>>
Rot(a, k) == <<RotVec(a, k, IdRot[1]), RotVec(a, k, IdRot[2]), RotVec(a, k, IdRot[3])>>
RotApply(r, v) == VAdd(VAdd(VScale(r[1], v[1]), VScale(r[2], v[2])), VScale(r[3], v[3]))
RotMul(r, s) == <<RotApply(r, s[1]), RotApply(r, s[2]), RotApply(r, s[3])>>

\* Isometry3: x |-> r x + t
Iso(t, r) == [t |-> t, r |-> r]
Translation(v) == Iso(v, IdRot)
IsoMul(a, b) == Iso(VAdd(a.t, RotApply(a.r, b.t)), RotMul(a.r, b.r))

\* Velocity: linear and angular part
Vel(lin, ang) == [linear |-> lin, angular |-> ang]
VelZero == Vel(Zero3, Zero3)
VelAdd(a, b) == Vel(VAdd(a.linear, b.linear), VAdd(a.angular, b.angular))
VelScale(a, k) == Vel(VScale(a.linear, k), VScale(a.angular, k))
VelTransformed(a, iso) == Vel(RotApply(iso.r, a.linear), RotApply(iso.r, a.angular))

(***************************************************************************)
(* The shared Jacobian buffer.  A JacobianSliceMut is a mutable view of a  *)
(* range of its columns: start is the first column of the underlying       *)
(* buffer the view covers, n the number of columns.  A callee can write    *)
(* only through the view it is handed.                                     *)
(***************************************************************************)
NCols == Base + 3
Sentinel == Vel(<<9, 9, 9>>, <<9, 9, 9>>)
SentinelBuffer == [c \in 0..(NCols - 1) |-> Sentinel]
View(start, n) == [start |-> start, n |-> n]
NoView == View(-1, 0)
ViewCols(v) == {c \in 0..(NCols - 1) : v.start <= c /\ c < v.start + v.n}

\* out.columns_mut(i, n): the sub-view of n columns starting at column i of the view
columns_mut(v, i, n) == View(v.start + i, n)

\* out.copy_from(val) on a one-column view
copy_from(buf, v, val) == [c \in DOMAIN buf |-> IF c \in ViewCols(v) THEN val ELSE buf[c]]

(***************************************************************************)
(* Motors and limits of a one-dof joint.                                   *)
(***************************************************************************)
NoLimit == [on |-> FALSE, at |-> 0]
LimitAt(x) == [on |-> TRUE, at |-> x]

\* active motor + active limits: a limit is active when the coordinate is at or
\* beyond its bound
unit_joint_nconstraints(motor, min, max, coord) ==
    (IF motor THEN 1 ELSE 0)
    + (IF min.on /\ coord <= min.at THEN 1 ELSE 0)
    + (IF max.on /\ coord >= max.at THEN 1 ELSE 0)

\* the constraint records of a one-dof joint, rows numbered from row on
unit_joint_constraints(motor, min, max, coord, dof_id, row) ==
    LET m == IF motor THEN <<[kind |-> "bilateral", dof_id |-> dof_id, row |-> row]>>
             ELSE <<>>
        lo == IF min.on /\ coord <= min.at
              THEN <<[kind |-> "unilateral", dof_id |-> dof_id, row |-> row + Len(m)]>>
              ELSE <<>>
        hi == IF max.on /\ coord >= max.at
              THEN <<[kind |-> "unilateral", dof_id |-> dof_id,
                      row |-> row + Len(m) + Len(lo)]>>
              ELSE <<>>
    IN m \o lo \o hi

(***************************************************************************)
(* PrismaticJoint: one offset along a fixed axis.                          *)
(***************************************************************************)
PrismaticJoint_new(axis, position) ==
    [axis |-> axis, offset |-> position, motor |-> FALSE, min |-> NoLimit, max |-> NoLimit]

Prismatic_ndofs(p) == 1
Prismatic_offset(p) == p.offset
Prismatic_translation(p) == Translation(VScale(p.axis, p.offset))
Prismatic_body_to_parent(p, parent_shift, body_shift) ==
    Translation(VAdd(VSub(parent_shift, body_shift), VScale(p.axis, p.offset)))
Prismatic_update_jacobians(p, body_shift, vels) == p
Prismatic_jacobian(p, transform, buf, v) ==
    copy_from(buf, v, VelTransformed(Vel(p.axis, Zero3), transform))
Prismatic_jacobian_dot(p, transform, buf, v) == buf
Prismatic_jacobian_dot_veldiff_mul_coordinates(p, transform, vels, buf, v) == buf
Prismatic_jacobian_mul_coordinates(p, vels) == Vel(VScale(p.axis, vels[1]), Zero3)
Prismatic_jacobian_dot_mul_coordinates(p, vels) == VelZero
\* mutant: the timestep added instead of multiplied
Prismatic_apply_displacement_plus(p, dt, vels) ==
    [p EXCEPT !.offset = p.offset + vels[1] + dt]
Prismatic_apply_displacement(p, dt, vels) == [p EXCEPT !.offset = p.offset + vels[1] * dt]
Prismatic_nconstraints(p) == unit_joint_nconstraints(p.motor, p.min, p.max, p.offset)
Prismatic_build_constraints(p, dof_id, gj) ==
    LET cs == unit_joint_constraints(p.motor, p.min, p.max, p.offset, dof_id, gj)
    IN [constraints |-> cs, gj |-> gj + Len(cs)]

(***************************************************************************)
(* RevoluteJoint: one angle about a fixed axis.  Its Jacobian has the axis *)
(* as angular part and the lever-arm term axis x shift as linear part; the *)
(* terms are refreshed by update_jacobians.                                *)
(***************************************************************************)
RevoluteJoint_new(axis, angle) ==
    [axis |-> axis, angle |-> angle,
     jacobian |-> Vel(Zero3, axis), jacobian_dot |-> VelZero,
     jacobian_dot_veldiff |-> VelZero,
     motor |-> FALSE, min |-> NoLimit, max |-> NoLimit]

Revolute_ndofs(r) == 1
Revolute_angle(r) == r.angle
Revolute_rot(r) == Rot(r.axis, r.angle)
Revolute_body_to_parent(r, parent_shift, body_shift) ==
    Iso(VSub(parent_shift, RotApply(Revolute_rot(r), body_shift)), Revolute_rot(r))
Revolute_update_jacobians(r, body_shift, vels) ==
    LET shift == RotApply(Revolute_rot(r), VNeg(body_shift))
        shift_dot_veldiff == Cross(r.axis, shift)
        veldiff == Vel(Cross(r.axis, shift_dot_veldiff), Zero3)
    IN [r EXCEPT !.jacobian = Vel(Cross(r.axis, shift), r.axis),
                 !.jacobian_dot_veldiff = veldiff,
                 !.jacobian_dot = VelScale(veldiff, vels[1])]
Revolute_jacobian(r, transform, buf, v) ==
    copy_from(buf, v, VelTransformed(r.jacobian, transform))
Revolute_jacobian_dot(r, transform, buf, v) ==
    copy_from(buf, v, VelTransformed(r.jacobian_dot, transform))
Revolute_jacobian_dot_veldiff_mul_coordinates(r, transform, vels, buf, v) ==
    copy_from(buf, v, VelScale(VelTransformed(r.jacobian_dot_veldiff, transform), vels[1]))
Revolute_jacobian_mul_coordinates(r, vels) == VelScale(r.jacobian, vels[1])
Revolute_jacobian_dot_mul_coordinates(r, vels) == VelScale(r.jacobian_dot, vels[1])
Revolute_apply_displacement(r, dt, vels) == [r EXCEPT !.angle = r.angle + vels[1] * dt]
Revolute_nconstraints(r) == unit_joint_nconstraints(r.motor, r.min, r.max, r.angle)
Revolute_build_constraints(r, dof_id, gj) ==
    LET cs == unit_joint_constraints(r.motor, r.min, r.max, r.angle, dof_id, gj)
    IN [constraints |-> cs, gj |-> gj + Len(cs)]

(***************************************************************************)
(* PinSlotJoint.  Every operation returns, beside its result, the list of  *)
(* the calls it makes on its sub-joints with what it hands each of them:   *)
(* the velocity slice, the buffer view, the dof id and the row counter on  *)
(* entry and on return.                                                    *)
(***************************************************************************)
Call(joint, vels, view, dof_id, gj_in, gj_out) ==
    [joint |-> joint, vels |-> vels, view |-> view, dof_id |-> dof_id,
     gj_in |-> gj_in, gj_out |-> gj_out]
VelsCall(joint, vels) == Call(joint, vels, NoView, -1, -1, -1)
ViewCall(joint, vels, view) == Call(joint, vels, view, -1, -1, -1)

PinSlotJoint_new(axis_v, axis_w, position, angle) ==
    [prism |-> PrismaticJoint_new(axis_v, position), revo |-> RevoluteJoint_new(axis_w, angle)]

offset(j) == Prismatic_offset(j.prism)
angle(j) == Revolute_angle(j.revo)

\* mutant: the dof count of a single sub-joint
ndofs_one(j) == 1

ndofs(j) == 2

\* mutant: the composition in the reverse order, rotation o translation
body_to_parent_reversed(j, parent_shift, body_shift) ==
    IsoMul(Revolute_body_to_parent(j.revo, parent_shift, body_shift),
           Prismatic_translation(j.prism))

body_to_parent(j, parent_shift, body_shift) ==
    IsoMul(Prismatic_translation(j.prism),
           Revolute_body_to_parent(j.revo, parent_shift, body_shift))

\* mutant: the revolute sub-joint is handed slot 0 instead of slot 1
update_jacobians_slot0(j, body_shift, vels) ==
    [joint |-> [prism |-> Prismatic_update_jacobians(j.prism, body_shift, vels),
                revo |-> Revolute_update_jacobians(j.revo, body_shift, <<vels[1]>>)],
     calls |-> <<VelsCall("prism", vels), VelsCall("revo", <<vels[1]>>)>>]

update_jacobians(j, body_shift, vels) ==
    [joint |-> [prism |-> Prismatic_update_jacobians(j.prism, body_shift, vels),
                revo |-> Revolute_update_jacobians(j.revo, body_shift, <<vels[2]>>)],
     calls |-> <<VelsCall("prism", vels), VelsCall("revo", <<vels[2]>>)>>]

\* mutant: the revolute sub-joint is handed the prismatic sub-joint's column
jacobian_same_column(j, transform, buf, v) ==
    LET pv == columns_mut(v, 0, 1)
        rv == columns_mut(v, 0, 1)
        mid == Prismatic_jacobian(j.prism, transform, buf, pv)
    IN [mid |-> mid,
        out |-> Revolute_jacobian(j.revo, transform, mid, rv),
        calls |-> <<ViewCall("prism", <<>>, pv), ViewCall("revo", <<>>, rv)>>]

jacobian(j, transform, buf, v) ==
    LET pv == columns_mut(v, 0, 1)
        rv == columns_mut(v, 1, 1)
        mid == Prismatic_jacobian(j.prism, transform, buf, pv)
    IN [mid |-> mid,
        out |-> Revolute_jacobian(j.revo, transform, mid, rv),
        calls |-> <<ViewCall("prism", <<>>, pv), ViewCall("revo", <<>>, rv)>>]

jacobian_dot(j, transform, buf, v) ==
    LET pv == columns_mut(v, 0, 1)
        rv == columns_mut(v, 1, 1)
        mid == Prismatic_jacobian_dot(j.prism, transform, buf, pv)
    IN [mid |-> mid,
        out |-> Revolute_jacobian_dot(j.revo, transform, mid, rv),
        calls |-> <<ViewCall("prism", <<>>, pv), ViewCall("revo", <<>>, rv)>>]

jacobian_dot_veldiff_mul_coordinates(j, transform, vels, buf, v) ==
    LET pv == columns_mut(v, 0, 1)
        rv == columns_mut(v, 1, 1)
        mid == Prismatic_jacobian_dot_veldiff_mul_coordinates(j.prism, transform, vels, buf, pv)
    IN [mid |-> mid,
        out |-> Revolute_jacobian_dot_veldiff_mul_coordinates(
                    j.revo, transform, <<vels[2]>>, mid, rv),
        calls |-> <<ViewCall("prism", vels, pv), ViewCall("revo", <<vels[2]>>, rv)>>]

jacobian_mul_coordinates(j, vels) ==
    [val |-> VelAdd(Prismatic_jacobian_mul_coordinates(j.prism, vels),
                    Revolute_jacobian_mul_coordinates(j.revo, <<vels[2]>>)),
     calls |-> <<VelsCall("prism", vels), VelsCall("revo", <<vels[2]>>)>>]

\* mutant: the revolute sub-joint is handed slot 0 instead of slot 1
jacobian_dot_mul_coordinates_slot0(j, vels) ==
    [val |-> Revolute_jacobian_dot_mul_coordinates(j.revo, <<vels[1]>>),
     calls |-> <<VelsCall("revo", <<vels[1]>>)>>]

\* the prismatic term is left out ("NOTE: The following is zero.")
jacobian_dot_mul_coordinates(j, vels) ==
    [val |-> Revolute_jacobian_dot_mul_coordinates(j.revo, <<vels[2]>>),
     calls |-> <<VelsCall("revo", <<vels[2]>>)>>]

\* mutant: the revolute sub-joint is handed slot 0 instead of slot 1
apply_displacement_slot0(j, dt, vels) ==
    [joint |-> [prism |-> Prismatic_apply_displacement(j.prism, dt, vels),
                revo |-> Revolute_apply_displacement(j.revo, dt, <<vels[1]>>)],
     calls |-> <<VelsCall("prism", vels), VelsCall("revo", <<vels[1]>>)>>]

apply_displacement(j, dt, vels) ==
    [joint |-> [prism |-> Prismatic_apply_displacement(j.prism, dt, vels),
                revo |-> Revolute_apply_displacement(j.revo, dt, <<vels[2]>>)],
     calls |-> <<VelsCall("prism", vels), VelsCall("revo", <<vels[2]>>)>>]

\* mutant: the revolute sub-joint's constraints are not counted
nconstraints_prism_only(j) == Prismatic_nconstraints(j.prism)

nconstraints(j) == Prismatic_nconstraints(j.prism) + Revolute_nconstraints(j.revo)

\* mutant: the revolute sub-joint starts from the counter's value on entry
build_constraints_stale_counter(j, dof_id, gj, cs) ==
    LET p == Prismatic_build_constraints(j.prism, dof_id, gj)
        r == Revolute_build_constraints(j.revo, dof_id + 1, gj)
    IN [constraints |-> cs \o p.constraints \o r.constraints,
        gj |-> r.gj,
        calls |-> <<Call("prism", <<>>, NoView, dof_id, gj, p.gj),
                    Call("revo", <<>>, NoView, dof_id + 1, gj, r.gj)>>]

build_constraints(j, dof_id, gj, cs) ==
    LET p == Prismatic_build_constraints(j.prism, dof_id, gj)
        r == Revolute_build_constraints(j.revo, dof_id + 1, p.gj)
    IN [constraints |-> cs \o p.constraints \o r.constraints,
        gj |-> r.gj,
        calls |-> <<Call("prism", <<>>, NoView, dof_id, gj, p.gj),
                    Call("revo", <<>>, NoView, dof_id + 1, p.gj, r.gj)>>]

(***************************************************************************)
(* The testbed's GraphicsManager.  A shape is its type and, for a          *)
(* compound, its parts, each a pair <<t, shape>>.  The catalogue's         *)
(* compounds place their parts by translations, which compose by addition. *)
(***************************************************************************)
Shape(type) == [type |-> type, parts |-> <<>>]
Compound(parts) == [type |-> "Compound2", parts |-> parts]

\* the world's objects, by uid
ShapeOf(uid) ==
    CASE uid = 1 -> Shape("Ball2")
      [] uid = 2 -> Compound(<<
                        <<<<1, 0>>, Shape("Cuboid2")>>,
                        <<<<0, 1>>, Compound(<<<<<<2, 0>>, Shape("Segment2")>>,
                                               <<<<0, 2>>, Shape("Plane2")>>>>)>>>>)
      [] uid = 3 -> Shape("Cone2")
      [] uid = 4 -> Compound(<<
                        <<<<1, 0>>, Shape("Ball2")>>,
                        <<<<0, 1>>, Compound(<<<<<<2, 0>>, Shape("Cylinder2")>>>>)>>,
                        <<<<1, 1>>, Shape("Convex2")>>>>)
      [] uid = 5 -> Shape("Polyline2")
      [] OTHER -> Shape("Convex2")
IsSensor(uid) == uid % 2 = 0
\* a sensor's parent rigid body (0: none)
ParentOf(uid) == IF uid = 2 THEN 1 ELSE 0
Uids == 1..MaxUid
RigidBodies == {u \in Uids : ~IsSensor(u)}
Sensors == {u \in Uids : IsSensor(u)}

\* the n-th value of the seeded generator's stream: a fixed table stands for
\* XorShiftRng's output
gen_range(n) == (37 * n + 11) % 256

\* Pnt3<f32> to Pnt3<u8>, each component (c * 255.0) as u8
ColorToU8(c) == <<c[1] * 255, c[2] * 255, c[3] * 255>>
InputColors == {<<0, 0, 0>>, <<1, 0, 1>>}

Put(map, key, val) == [k \in DOMAIN map \cup {key} |-> IF k = key THEN val ELSE map[k]]

\* color_for_object on the manager state st = [out, obj2color, rand, panicked]:
\* the cached color, or a fresh random one (a sensor takes its parent's color when
\* the parent has one), which is cached
color_for_object(st, uid) ==
    IF uid \in DOMAIN st.obj2color
    THEN [st |-> st, color |-> st.obj2color[uid]]
    ELSE LET drawn == <<gen_range(st.rand), gen_range(st.rand + 1), gen_range(st.rand + 2)>>
             color == IF IsSensor(uid) /\ ParentOf(uid) # 0
                         /\ ParentOf(uid) \in DOMAIN st.obj2color
                      THEN st.obj2color[ParentOf(uid)]
                      ELSE drawn
         IN [st |-> [st EXCEPT !.rand = st.rand + 3,
                               !.obj2color = Put(st.obj2color, uid, color)],
             color |-> color]

\* add_ball, add_box, add_convex, add_segment, add_lines: push one node of the
\* object's color
add_node(st, node, uid, delta) ==
    LET c == color_for_object(st, uid)
    IN [c.st EXCEPT !.out = Append(c.st.out,
                                   [node |-> node, uid |-> uid, delta |-> delta,
                                    color |-> c.color])]

RECURSIVE add_shape_skip(_, _, _, _), add_shapes_skip(_, _, _, _)
\* mutant: a shape of no handled type is skipped
add_shape_skip(st, uid, delta, shape) ==
    CASE shape.type = "Plane2" -> st
      [] shape.type = "Ball2" -> add_node(st, "BallNode", uid, delta)
      [] shape.type = "Cuboid2" -> add_node(st, "BoxNode", uid, delta)
      [] shape.type = "Convex2" -> add_node(st, "LinesNode", uid, delta)
      [] shape.type = "Segment2" -> add_node(st, "SegmentNode", uid, delta)
      [] shape.type = "Compound2" -> add_shapes_skip(st, uid, delta, shape.parts)
      [] shape.type = "Polyline2" -> add_node(st, "LinesNode", uid, delta)
      [] OTHER -> st
add_shapes_skip(st, uid, delta, parts) ==
    IF parts = <<>> THEN st
    ELSE add_shapes_skip(
             add_shape_skip(st, uid, <<delta[1] + Head(parts)[1][1],
                                       delta[2] + Head(parts)[1][2]>>, Head(parts)[2]),
             uid, delta, Tail(parts))

RECURSIVE add_shape(_, _, _, _), add_shapes(_, _, _, _)
\* the dispatch on the shape's type; panic!("Not yet implemented.") on any other
add_shape(st, uid, delta, shape) ==
    CASE shape.type = "Plane2" -> st
      [] shape.type = "Ball2" -> add_node(st, "BallNode", uid, delta)
      [] shape.type = "Cuboid2" -> add_node(st, "BoxNode", uid, delta)
      [] shape.type = "Convex2" -> add_node(st, "LinesNode", uid, delta)
      [] shape.type = "Segment2" -> add_node(st, "SegmentNode", uid, delta)
      [] shape.type = "Compound2" -> add_shapes(st, uid, delta, shape.parts)
      [] shape.type = "Polyline2" -> add_node(st, "LinesNode", uid, delta)
      [] OTHER -> [st EXCEPT !.panicked = TRUE]
\* the loop over a compound's parts; a panic ends it
add_shapes(st, uid, delta, parts) ==
    IF parts = <<>> \/ st.panicked THEN st
    ELSE add_shapes(
             add_shape(st, uid, <<delta[1] + Head(parts)[1][1],
                                  delta[2] + Head(parts)[1][2]>>, Head(parts)[2]),
             uid, delta, Tail(parts))

VARIABLES
    rb2sn,       \* rigid body uid -> its scene nodes
    s2sn,        \* sensor uid -> its scene nodes
    obj2color,   \* uid -> color
    rand,        \* number of values drawn from the generator
    status,      \* "running", or "panicked" once a panic unwinds out of the manager
    gmOp, gmArg  \* the last operation and the uid it was given

gvars == <<rb2sn, s2sn, obj2color, rand, status, gmOp, gmArg>>

GraphicsManager_new ==
    /\ rb2sn = <<>>
    /\ s2sn = <<>>
    /\ obj2color = <<>>
    /\ rand = 0
    /\ status = "running"
    /\ gmOp = "new"
    /\ gmArg = 0

\* add: the nodes are built first; the map is written only if that returns
add ==
    \E uid \in Uids :
        LET r == add_shape([out |-> <<>>, obj2color |-> obj2color, rand |-> rand,
                            panicked |-> FALSE], uid, <<0, 0>>, ShapeOf(uid))
        IN /\ status = "running"
           /\ gmOp' = "add"
           /\ gmArg' = uid
           /\ obj2color' = r.obj2color
           /\ rand' = r.rand
           /\ IF r.panicked
              THEN status' = "panicked" /\ UNCHANGED <<rb2sn, s2sn>>
              ELSE /\ status' = status
                   /\ IF IsSensor(uid)
                      THEN s2sn' = Put(s2sn, uid, r.out) /\ rb2sn' = rb2sn
                      ELSE rb2sn' = Put(rb2sn, uid, r.out) /\ s2sn' = s2sn

clear ==
    /\ status = "running"
    /\ rb2sn' = <<>>
    /\ s2sn' = <<>>
    /\ gmOp' = "clear"
    /\ gmArg' = 0
    /\ UNCHANGED <<obj2color, rand, status>>

Recolored(map, key, color) ==
    [k \in DOMAIN map |->
        IF k = key THEN [i \in DOMAIN map[k] |-> [map[k][i] EXCEPT !.color = color]]
        ELSE map[k]]

set_color(name, key, color) ==
    /\ status = "running"
    /\ obj2color' = Put(obj2color, key, ColorToU8(color))
    /\ rb2sn' = Recolored(rb2sn, key, ColorToU8(color))
    /\ s2sn' = Recolored(s2sn, key, ColorToU8(color))
    /\ gmOp' = name
    /\ gmArg' = key
    /\ UNCHANGED <<rand, status>>

set_rigid_body_color ==
    \E uid \in RigidBodies, color \in InputColors :
        set_color("set_rigid_body_color", uid, color)

set_sensor_color ==
    \E uid \in Sensors, color \in InputColors : set_color("set_sensor_color", uid, color)

(***************************************************************************)
(* State of the joint and of what its caller holds, and a record of the    *)
(* last operation: its name, its inputs, the calls it made on the          *)
(* sub-joints, its result and the coordinates before it.                   *)
(***************************************************************************)
VARIABLES
    joint,                \* the PinSlotJoint: [prism, revo]
    out,                  \* the caller's Jacobian buffer after the last operation
    ground_jacobian_id,   \* the caller's row counter after the last operation
    vel_constraints,      \* the caller's constraint set after the last operation
    op, args, calls, ret, pre

jvars == <<joint, out, ground_jacobian_id, vel_constraints, op, args, calls, ret, pre>>
vars == <<jvars, gvars>>

Axes == {AxisX, AxisZ}
Offsets == 0..MaxCoord
Angles == 0..MaxAngle
VelValues == {-1, 0, 1}
Vels == [1..2 -> VelValues]
Dts == 1..MaxDt
Shifts == {Zero3, AxisX}
Transforms == {Translation(Zero3), Iso(AxisX, Rot(AxisZ, 1))}
Rows == 0..MaxRow
LimitValues == {1}

NoArgs ==
    [vels |-> <<>>, dt |-> 0, transform |-> Translation(Zero3),
     parent_shift |-> Zero3, body_shift |-> Zero3, row |-> 0, limit |-> 0]

CoordsOf(j) == [offset |-> offset(j), angle |-> angle(j)]

\* what every operation leaves behind for its caller
Done(name, a, j, buf, gj, cs, cl, r) ==
    /\ op' = name
    /\ args' = a
    /\ joint' = j
    /\ out' = buf
    /\ ground_jacobian_id' = gj
    /\ vel_constraints' = cs
    /\ calls' = cl
    /\ ret' = r
    /\ pre' = CoordsOf(joint)

\* an operation that only reads the joint and returns r
Query(name, a, cl, r) == Done(name, a, joint, SentinelBuffer, 0, <<>>, cl, r)

\* PinSlotJoint::new on the given axes and coordinates
InitWith(axes_v, axes_w, offsets, angles) ==
    /\ \E axis_v \in axes_v, axis_w \in axes_w, position \in offsets, a \in angles :
           joint = PinSlotJoint_new(axis_v, axis_w, position, a)
    /\ out = SentinelBuffer
    /\ ground_jacobian_id = 0
    /\ vel_constraints = <<>>
    /\ op = "new"
    /\ args = NoArgs
    /\ calls = <<>>
    /\ ret = 0
    /\ pre = CoordsOf(joint)

Ndofs == Query("ndofs", NoArgs, <<>>, ndofs(joint))

BodyToParent ==
    \E ps \in Shifts, bs \in Shifts :
        Query("body_to_parent", [NoArgs EXCEPT !.parent_shift = ps, !.body_shift = bs],
              <<>>, body_to_parent(joint, ps, bs))

UpdateJacobiansWith(shifts) ==
    \E bs \in shifts, vels \in Vels :
        LET r == update_jacobians(joint, bs, vels)
        IN Done("update_jacobians", [NoArgs EXCEPT !.body_shift = bs, !.vels = vels],
                r.joint, SentinelBuffer, 0, <<>>, r.calls, 0)

UpdateJacobians == UpdateJacobiansWith(Shifts)

\* the caller hands the joint the ndofs columns of the buffer starting at Base
Jacobian ==
    \E t \in Transforms :
        LET r == jacobian(joint, t, SentinelBuffer, View(Base, ndofs(joint)))
        IN Done("jacobian", [NoArgs EXCEPT !.transform = t],
                joint, r.out, 0, <<>>, r.calls, r.mid)

JacobianDot ==
    \E t \in Transforms :
        LET r == jacobian_dot(joint, t, SentinelBuffer, View(Base, ndofs(joint)))
        IN Done("jacobian_dot", [NoArgs EXCEPT !.transform = t],
                joint, r.out, 0, <<>>, r.calls, r.mid)

JacobianDotVeldiffMulCoordinates ==
    \E t \in Transforms, vels \in Vels :
        LET r == jacobian_dot_veldiff_mul_coordinates(
                     joint, t, vels, SentinelBuffer, View(Base, ndofs(joint)))
        IN Done("jacobian_dot_veldiff_mul_coordinates",
                [NoArgs EXCEPT !.transform = t, !.vels = vels],
                joint, r.out, 0, <<>>, r.calls, r.mid)

JacobianMulCoordinates ==
    \E vels \in Vels :
        LET r == jacobian_mul_coordinates(joint, vels)
        IN Query("jacobian_mul_coordinates", [NoArgs EXCEPT !.vels = vels], r.calls, r.val)

JacobianDotMulCoordinates ==
    \E vels \in Vels :
        LET r == jacobian_dot_mul_coordinates(joint, vels)
        IN Query("jacobian_dot_mul_coordinates", [NoArgs EXCEPT !.vels = vels],
                 r.calls, r.val)

\* the guard keeps the coordinates within the model's range
ApplyDisplacement ==
    \E dt \in Dts, vels \in Vels :
        LET r == apply_displacement(joint, dt, vels)
        IN /\ offset(r.joint) \in Offsets
           /\ angle(r.joint) \in Angles
           /\ Done("apply_displacement", [NoArgs EXCEPT !.dt = dt, !.vels = vels],
                   r.joint, SentinelBuffer, 0, <<>>, r.calls, 0)

Nconstraints == Query("nconstraints", NoArgs, <<>>, nconstraints(joint))

\* the link's dof id is Base; the counter holds row on entry
BuildConstraints ==
    \E row \in Rows :
        LET r == build_constraints(joint, Base, row, <<>>)
        IN Done("build_constraints", [NoArgs EXCEPT !.row = row],
                joint, SentinelBuffer, r.gj, r.constraints, r.calls, 0)

(***************************************************************************)
(* The motor and limit methods prismatic_motor_limit_methods! and          *)
(* revolute_motor_limit_methods! give PinSlotJoint, each forwarding to the *)
(* named sub-joint.                                                        *)
(***************************************************************************)
Configure(name, limit, j) ==
    Done(name, [NoArgs EXCEPT !.limit = limit], j, SentinelBuffer, 0, <<>>, <<>>, 0)

enable_linear_motor == Configure("enable_linear_motor", 0, [joint EXCEPT !.prism.motor = TRUE])
disable_linear_motor ==
    Configure("disable_linear_motor", 0, [joint EXCEPT !.prism.motor = FALSE])
enable_min_offset ==
    \E limit \in LimitValues :
        Configure("enable_min_offset", limit, [joint EXCEPT !.prism.min = LimitAt(limit)])
disable_min_offset == Configure("disable_min_offset", 0, [joint EXCEPT !.prism.min = NoLimit])
enable_max_offset ==
    \E limit \in LimitValues :
        Configure("enable_max_offset", limit, [joint EXCEPT !.prism.max = LimitAt(limit)])
disable_max_offset == Configure("disable_max_offset", 0, [joint EXCEPT !.prism.max = NoLimit])
enable_angular_motor ==
    Configure("enable_angular_motor", 0, [joint EXCEPT !.revo.motor = TRUE])
disable_angular_motor ==
    Configure("disable_angular_motor", 0, [joint EXCEPT !.revo.motor = FALSE])
enable_min_angle ==
    \E limit \in LimitValues :
        Configure("enable_min_angle", limit, [joint EXCEPT !.revo.min = LimitAt(limit)])
disable_min_angle == Configure("disable_min_angle", 0, [joint EXCEPT !.revo.min = NoLimit])
enable_max_angle ==
    \E limit \in LimitValues :
        Configure("enable_max_angle", limit, [joint EXCEPT !.revo.max = LimitAt(limit)])
disable_max_angle == Configure("disable_max_angle", 0, [joint EXCEPT !.revo.max = NoLimit])

(***************************************************************************)
(* Spec: the kinematics and the integration of a joint on any axes, with   *)
(* no motor or limit.                                                      *)
(***************************************************************************)
Init == InitWith(Axes, Axes, Offsets, Angles) /\ GraphicsManager_new

Next ==
    \/ BodyToParent /\ UNCHANGED gvars
    \/ UpdateJacobians /\ UNCHANGED gvars
    \/ Jacobian /\ UNCHANGED gvars
    \/ JacobianDot /\ UNCHANGED gvars
    \/ JacobianDotVeldiffMulCoordinates /\ UNCHANGED gvars
    \/ JacobianMulCoordinates /\ UNCHANGED gvars
    \/ JacobianDotMulCoordinates /\ UNCHANGED gvars
    \/ ApplyDisplacement /\ UNCHANGED gvars

Spec == Init /\ [][Next]_vars

(***************************************************************************)
(* SpecC: the joint's lifetime on the constraint side: motors and limits   *)
(* switched on and off, integration, constraint counting and building.     *)
(* These operations read neither the axes nor the Jacobian terms, so the   *)
(* axes are fixed and update_jacobians is called with a zero body shift.   *)
(***************************************************************************)
InitC == InitWith({AxisX}, {AxisZ}, Offsets, Angles) /\ GraphicsManager_new

UpdateJacobiansC == UpdateJacobiansWith({Zero3})

NextC ==
    \/ Ndofs /\ UNCHANGED gvars
    \/ UpdateJacobiansC /\ UNCHANGED gvars
    \/ ApplyDisplacement /\ UNCHANGED gvars
    \/ Nconstraints /\ UNCHANGED gvars
    \/ BuildConstraints /\ UNCHANGED gvars
    \/ enable_linear_motor /\ UNCHANGED gvars
    \/ disable_linear_motor /\ UNCHANGED gvars
    \/ enable_min_offset /\ UNCHANGED gvars
    \/ disable_min_offset /\ UNCHANGED gvars
    \/ enable_max_offset /\ UNCHANGED gvars
    \/ disable_max_offset /\ UNCHANGED gvars
    \/ enable_angular_motor /\ UNCHANGED gvars
    \/ disable_angular_motor /\ UNCHANGED gvars
    \/ enable_min_angle /\ UNCHANGED gvars
    \/ disable_min_angle /\ UNCHANGED gvars
    \/ enable_max_angle /\ UNCHANGED gvars
    \/ disable_max_angle /\ UNCHANGED gvars

SpecC == InitC /\ [][NextC]_vars

(***************************************************************************)
(* SpecGM: the GraphicsManager, beside a joint that is left alone.  A      *)
(* panic ends the run: nothing is called on the manager after it.          *)
(***************************************************************************)
InitGM == InitWith({AxisX}, {AxisZ}, {0}, {0}) /\ GraphicsManager_new

NextGM ==
    \/ add /\ UNCHANGED jvars
    \/ clear /\ UNCHANGED jvars
    \/ set_rigid_body_color /\ UNCHANGED jvars
    \/ set_sensor_color /\ UNCHANGED jvars

SpecGM == InitGM /\ [][NextGM]_vars

(***************************************************************************)
(* Properties of PinSlotJoint.                                             *)
(***************************************************************************)
JacobianOps == {"jacobian", "jacobian_dot", "jacobian_dot_veldiff_mul_coordinates"}
VelocityOps ==
    {"update_jacobians", "jacobian_dot_veldiff_mul_coordinates", "jacobian_mul_coordinates",
     "jacobian_dot_mul_coordinates", "apply_displacement"}
CallsOn(name) == {i \in 1..Len(calls) : calls[i].joint = name}

\* C1: jacobian, jacobian_dot and jacobian_dot_veldiff_mul_coordinates hand the
\* prismatic sub-joint column range [0,1) of the joint's view and the revolute
\* sub-joint column range [1,2).  The ranges are disjoint; the prismatic write leaves
\* the revolute column as it was, the revolute write leaves the prismatic column as
\* the prismatic sub-joint left it, and every column outside the joint's two columns
\* keeps its sentinel.  (ret is the buffer between the two sub-joint calls.)
ThmC1 ==
    op \in JacobianOps =>
        /\ Len(calls) = 2
        /\ calls[1].joint = "prism" /\ calls[1].view = View(Base, 1)
        /\ calls[2].joint = "revo" /\ calls[2].view = View(Base + 1, 1)
        /\ ViewCols(calls[1].view) \cap ViewCols(calls[2].view) = {}
        /\ ret[Base + 1] = Sentinel
        /\ out[Base] = ret[Base]
        /\ \A c \in DOMAIN out \ {Base, Base + 1} : out[c] = Sentinel /\ ret[c] = Sentinel

WitC1 ==
    /\ op = "jacobian"
    /\ out[Base] # Sentinel
    /\ out[Base + 1] # Sentinel
    /\ out[Base] # out[Base + 1]
    /\ out[Base - 1] = Sentinel

\* C3 as amended: in every operation that takes a velocity vector, the revolute
\* sub-joint is handed exactly the one-element slice [vels[1]], while the prismatic
\* sub-joint is handed the whole vels slice (its own component at index 0), and is
\* not called at all by jacobian_dot_mul_coordinates.
ThmC3 ==
    op \in VelocityOps =>
        /\ \A i \in CallsOn("prism") : calls[i].vels = args.vels
        /\ \A i \in CallsOn("revo") : calls[i].vels = <<args.vels[2]>>
        /\ Cardinality(CallsOn("revo")) = 1
        /\ Cardinality(CallsOn("prism")) =
               (IF op = "jacobian_dot_mul_coordinates" THEN 0 ELSE 1)

WitC3 ==
    /\ op = "update_jacobians"
    /\ args.vels = <<1, -1>>
    /\ Cardinality(CallsOn("prism")) = 1
    /\ Cardinality(CallsOn("revo")) = 1

\* C3 as stated: each sub-joint is shown only the velocity component of its own
\* slot, the prismatic sub-joint only vels[0] and the revolute only vels[1].
CexC3 ==
    op \in VelocityOps =>
        /\ \A i \in CallsOn("prism") : calls[i].vels = <<args.vels[1]>>
        /\ \A i \in CallsOn("revo") : calls[i].vels = <<args.vels[2]>>

\* C4: apply_displacement sets offset' = offset + vels[0]*dt and
\* angle' = angle + vels[1]*dt; from offset 2, vels = [1, 0] and dt = 1 the offset
\* becomes 3 and the angle stays.
ThmC4 ==
    op = "apply_displacement" =>
        /\ offset(joint) = pre.offset + args.vels[1] * args.dt
        /\ angle(joint) = pre.angle + args.vels[2] * args.dt
        /\ (pre.offset = 2 /\ args.vels = <<1, 0>> /\ args.dt = 1) =>
               (offset(joint) = 3 /\ angle(joint) = pre.angle)

WitC4 ==
    /\ op = "apply_displacement"
    /\ pre = [offset |-> 2, angle |-> 1]
    /\ args.vels = <<1, 0>>
    /\ args.dt = 1
    /\ offset(joint) = 3
    /\ angle(joint) = 1

\* C5: apply_displacement with an all-zero velocity vector leaves the joint, and so
\* both coordinates, unchanged, whatever the state and the timestep; every one of
\* any number of repeated such calls is such a step.
ThmC5 ==
    [][(op' = "apply_displacement" /\ args'.vels = <<0, 0>>) => joint' = joint]_vars

WitC5 ==
    /\ op = "apply_displacement"
    /\ args.vels = <<0, 0>>
    /\ args.dt = 2
    /\ CoordsOf(joint) = [offset |-> 2, angle |-> 1]
    /\ pre = CoordsOf(joint)

\* C7 as amended: body_to_parent is translation o rotation, the prismatic
\* sub-joint's translation() (by axis*offset, no shift) composed with the revolute
\* sub-joint's body_to_parent, i.e. x |-> R x + (axis_v*offset + parent_shift - R
\* body_shift); it equals the product of the two sub-joints' own body_to_parent
\* outputs when parent_shift = body_shift.
ThmC7 ==
    op = "body_to_parent" =>
        LET R == Rot(joint.revo.axis, joint.revo.angle)
            ps == args.parent_shift
            bs == args.body_shift
        IN /\ ret.r = R
           /\ ret.t = VAdd(VScale(joint.prism.axis, joint.prism.offset),
                           VSub(ps, RotApply(R, bs)))
           /\ ps = bs =>
                  ret = IsoMul(Prismatic_body_to_parent(joint.prism, ps, bs),
                               Revolute_body_to_parent(joint.revo, ps, bs))

\* the order matters here: rotation o translation is another transform
WitC7 ==
    /\ op = "body_to_parent"
    /\ joint.prism.axis = AxisX /\ joint.revo.axis = AxisZ
    /\ joint.prism.offset = 2 /\ joint.revo.angle = 1
    /\ args.parent_shift = AxisX /\ args.body_shift = AxisX
    /\ ret = [t |-> <<3, -1, 0>>, r |-> Rot(AxisZ, 1)]
    /\ ret # IsoMul(Revolute_body_to_parent(joint.revo, AxisX, AxisX),
                    Prismatic_translation(joint.prism))

\* C7 as stated: body_to_parent is translation o rotation and equals the product of
\* the two sub-joints' own body_to_parent outputs for the same shift inputs.
CexC7 ==
    op = "body_to_parent" =>
        /\ ret = IsoMul(Prismatic_translation(joint.prism),
                        Revolute_body_to_parent(joint.revo, args.parent_shift,
                                                args.body_shift))
        /\ ret = IsoMul(Prismatic_body_to_parent(joint.prism, args.parent_shift,
                                                 args.body_shift),
                        Revolute_body_to_parent(joint.revo, args.parent_shift,
                                                args.body_shift))

ActiveParts(j) ==
    {x \in {"linear_motor", "min_offset", "max_offset",
            "angular_motor", "min_angle", "max_angle"} :
        CASE x = "linear_motor" -> j.prism.motor
          [] x = "min_offset" -> j.prism.min.on /\ j.prism.offset <= j.prism.min.at
          [] x = "max_offset" -> j.prism.max.on /\ j.prism.offset >= j.prism.max.at
          [] x = "angular_motor" -> j.revo.motor
          [] x = "min_angle" -> j.revo.min.on /\ j.revo.angle <= j.revo.min.at
          [] x = "max_angle" -> j.revo.max.on /\ j.revo.angle >= j.revo.max.at}
NothingEnabled(j) ==
    /\ ~j.prism.motor /\ ~j.prism.min.on /\ ~j.prism.max.on
    /\ ~j.revo.motor /\ ~j.revo.min.on /\ ~j.revo.max.on
RowsOf(cs, dof_id) == {cs[i].row : i \in {k \in 1..Len(cs) : cs[k].dof_id = dof_id}}

\* C2: build_constraints calls the prismatic sub-joint with dof_id = base and then
\* the revolute sub-joint with dof_id = base + 1, on one row counter: the counter
\* never decreases, the revolute sub-joint starts at the value the prismatic
\* sub-joint left, the rows of the two sub-joints do not overlap and lie in the
\* ranges the counter gave them, and the counter ends advanced by the number of rows
\* both used.
ThmC2 ==
    op = "build_constraints" =>
        /\ Len(calls) = 2
        /\ calls[1].joint = "prism" /\ calls[1].dof_id = Base
        /\ calls[2].joint = "revo"
        /\ calls[2].dof_id = Base + Prismatic_ndofs(joint.prism)
        /\ calls[2].dof_id = Base + 1
        /\ calls[1].gj_in = args.row
        /\ calls[1].gj_in <= calls[1].gj_out
        /\ calls[2].gj_in = calls[1].gj_out
        /\ calls[2].gj_in <= calls[2].gj_out
        /\ ground_jacobian_id = calls[2].gj_out
        /\ RowsOf(vel_constraints, Base) = calls[1].gj_in..(calls[1].gj_out - 1)
        /\ RowsOf(vel_constraints, Base + 1) = calls[2].gj_in..(calls[2].gj_out - 1)
        /\ RowsOf(vel_constraints, Base) \cap RowsOf(vel_constraints, Base + 1) = {}
        /\ ground_jacobian_id - args.row
               = Cardinality(RowsOf(vel_constraints, Base))
                 + Cardinality(RowsOf(vel_constraints, Base + 1))
        /\ ground_jacobian_id - args.row = Len(vel_constraints)

WitC2 ==
    /\ op = "build_constraints"
    /\ args.row = 1
    /\ Cardinality(RowsOf(vel_constraints, Base)) = 2
    /\ Cardinality(RowsOf(vel_constraints, Base + 1)) = 2
    /\ ground_jacobian_id = 5

\* C6: nconstraints() is the prismatic sub-joint's nconstraints() plus the revolute
\* sub-joint's, the number of active motors and limits: 0 when no motor or limit is
\* enabled, 1 when only the revolute motor is.
ThmC6 ==
    op = "nconstraints" =>
        /\ ret = Prismatic_nconstraints(joint.prism) + Revolute_nconstraints(joint.revo)
        /\ ret = Cardinality(ActiveParts(joint))
        /\ NothingEnabled(joint) => ret = 0
        /\ NothingEnabled([joint EXCEPT !.revo.motor = FALSE]) /\ joint.revo.motor => ret = 1

WitC6 ==
    /\ op = "nconstraints"
    /\ joint.revo.motor
    /\ NothingEnabled([joint EXCEPT !.revo.motor = FALSE])
    /\ ret = 1

\* C8: ndofs() is 2, the sum of the sub-joints' ndofs(), in every state the joint
\* reaches through update_jacobians, apply_displacement, build_constraints and motor
\* and limit changes.
ThmC8 ==
    /\ ndofs(joint) = 2
    /\ ndofs(joint) = Prismatic_ndofs(joint.prism) + Revolute_ndofs(joint.revo)
    /\ op = "ndofs" => ret = 2

WitC8 ==
    /\ op = "ndofs"
    /\ ret = 2
    /\ joint.prism.motor /\ joint.revo.max.on
    /\ CoordsOf(joint) = [offset |-> MaxCoord, angle |-> MaxAngle]

(***************************************************************************)
(* Properties of GraphicsManager.                                          *)
(***************************************************************************)
HandledTypes ==
    {"Plane2", "Ball2", "Cuboid2", "Convex2", "Segment2", "Compound2", "Polyline2"}
RECURSIVE Unhandled(_)
\* the shape, or a shape nested in it, is of no handled type
Unhandled(shape) ==
    \/ shape.type \notin HandledTypes
    \/ \E i \in DOMAIN shape.parts : Unhandled(shape.parts[i][2])

\* C9: add on an object whose shape, or a shape nested in it, is of no handled type
\* panics: the call aborts, and no scene-node entry of such an object is ever in the
\* rigid-body or the sensor map.
ThmC9 ==
    /\ \A u \in Uids : Unhandled(ShapeOf(u)) => u \notin DOMAIN rb2sn /\ u \notin DOMAIN s2sn
    /\ (gmOp = "add" /\ Unhandled(ShapeOf(gmArg))) => status = "panicked"
    /\ status = "panicked" => (gmOp = "add" /\ Unhandled(ShapeOf(gmArg)))

\* the compound of object 4: its ball was given a color before its cylinder panicked
WitC9 ==
    /\ gmOp = "add"
    /\ gmArg = 4
    /\ status = "panicked"
    /\ 4 \in DOMAIN obj2color
    /\ 4 \notin DOMAIN s2sn
    /\ DOMAIN rb2sn = {1} /\ DOMAIN s2sn = {2}

====
